---- MODULE Spec2Model ----
(***************************************************************************)
(* A model of btree.py: BNode (a mutable node object holding the lists     *)
(* items and children) and BTree (the handle owning the root).             *)
(*                                                                         *)
(* Node objects live in a heap, a sequence of records indexed by object    *)
(* identity, because the code mutates nodes in place and passes them by    *)
(* reference.  Every method is an operator that takes the heap and returns *)
(* the heap it leaves behind together with its return value and the        *)
(* exception it raised, if any.  List indices are Python's (0-based).      *)
(***************************************************************************)
EXTENDS Integers, Sequences, FiniteSets

\* ---------------------------------------------------------------- bounds
MaxKey == 2
MaxItems == 16
MaxMaxsize == 3
\* The items one run of testiter inserts at most
MaxRoundTrip == 17
\* The smallest maxsize the test driver builds a tree with (ds in test.py).
MinMaxsize == 2

Keys == 1..MaxKey
MaxSizes == MinMaxsize..MaxMaxsize
\* The largest node size of the runs in which minsize is above 1
MaxWide == 4
AllSizes == MinMaxsize..MaxWide
\* The sizes below every size the test driver uses
InvalidSizes == 0..(MinMaxsize - 1)

VARIABLES heap, root, maxsize, minsize, present, ninserts, lastop, err, outcome

vars == <<heap, root, maxsize, minsize, present, ninserts, lastop, err, outcome>>

\* ------------------------------------------------------- Python lists
Min(a, b) == IF a < b THEN a ELSE b

\* s[:k] and s[k:], which clamp k to the length of the list
Take(s, k) == SubSeq(s, 1, Min(k, Len(s)))
Drop(s, k) == SubSeq(s, Min(k, Len(s)) + 1, Len(s))
\* s[i], del s[i] and s[i] = x for an index i that is in range
At(s, i) == s[i + 1]
DelAt(s, i) == Take(s, i) \o Drop(s, i + 1)
SetAt(s, i, x) == [s EXCEPT ![i + 1] = x]
InRange(s, i) == 0 <= i /\ i < Len(s)

\* An optional item: <<>> is None, <<x>> is the item x.
None == <<>>
Some(x) == <<x>>

NoErr == "none"

\* The key function the test driver passes: lambda x: x
keyfunc(x) == x

\* list.sort(key=keyfunc): a stable sort, here by insertion
RECURSIVE SortInto(_, _)
SortInto(sorted, x) ==
    IF sorted = <<>> THEN <<x>>
    ELSE IF keyfunc(Head(sorted)) <= keyfunc(x)
         THEN <<Head(sorted)>> \o SortInto(Tail(sorted), x)
         ELSE <<x>> \o sorted

RECURSIVE Sort(_)
Sort(s) == IF s = <<>> THEN <<>> ELSE SortInto(Sort(Take(s, Len(s) - 1)), s[Len(s)])

\* ---------------------------------------------------------------- BNode
\* BNode(): a fresh object with empty items and children
EmptyNode == [items |-> <<>>, children |-> <<>>]
NewNode(h) == [h |-> Append(h, EmptyNode), id |-> Len(h) + 1]

SetItems(h, n, its) == [h EXCEPT ![n].items = its]
SetChildren(h, n, ch) == [h EXCEPT ![n].children = ch]

\* BNode.find_by_key: the first item that stops the scan decides.  With no
\* items the loop variable ind is never bound and ind + 1 raises.
find_by_key(its, key, selfcheck) ==
    LET stops == {i \in 1..Len(its) :
                    \/ selfcheck /\ keyfunc(its[i]) = key
                    \/ key < keyfunc(its[i])}
    IN  IF stops = {}
        THEN IF its = <<>>
             THEN [err |-> "UnboundLocalError", here |-> FALSE, ind |-> 0]
             ELSE [err |-> NoErr, here |-> FALSE, ind |-> Len(its)]
        ELSE LET i == CHOOSE j \in stops : \A k \in stops : j <= k
             IN  [err |-> NoErr,
                  here |-> selfcheck /\ keyfunc(its[i]) = key,
                  ind |-> i - 1]

\* add_item without its sort
add_item_unsorted(h, n, item) == SetItems(h, n, Append(h[n].items, item))

\* BNode.add_item
add_item(h, n, item) == SetItems(h, n, Sort(Append(h[n].items, item)))

\* A pop_median that takes the upper median of an even number of items
pop_median_upper(h, n) ==
    IF InRange(h[n].items, Len(h[n].items) \div 2)
    THEN [h |-> SetItems(h, n, DelAt(h[n].items, Len(h[n].items) \div 2)),
          bubble |-> Some(At(h[n].items, Len(h[n].items) \div 2)), err |-> NoErr]
    ELSE [h |-> h, bubble |-> None, err |-> "IndexError"]

\* BNode.pop_median: size/2 for odd sizes, (size-1)/2 for even ones
pop_median(h, n) ==
    LET size == Len(h[n].items)
        midpoint == IF size % 2 # 0 THEN size \div 2 ELSE (size - 1) \div 2
    IN  IF InRange(h[n].items, midpoint)
        THEN [h |-> SetItems(h, n, DelAt(h[n].items, midpoint)),
              bubble |-> Some(At(h[n].items, midpoint)), err |-> NoErr]
        ELSE [h |-> h, bubble |-> None, err |-> "IndexError"]

\* insert_here popping the median of a node that is full, not overfull
insert_popped_when_full(h1, n, maxcount) ==
    IF Len(h1[n].items) >= maxcount
    THEN pop_median(h1, n)
    ELSE [h |-> h1, bubble |-> None, err |-> NoErr]

\* BNode.insert_here
insert_popped(h1, n, maxcount) ==
    IF Len(h1[n].items) > maxcount
    THEN pop_median(h1, n)
    ELSE [h |-> h1, bubble |-> None, err |-> NoErr]

insert_here(h, n, item, maxcount) == insert_popped(add_item(h, n, item), n, maxcount)

\* A split that leaves the child in the middle of an odd number of children
\* to the left half
split_into_ceiling(h, n, a) ==
    [h |-> [a.h EXCEPT
              ![n] = [items |-> Take(h[n].items, Len(h[n].items) \div 2),
                      children |-> Take(h[n].children, (Len(h[n].items) + 3) \div 2)],
              ![a.id] = [items |-> Drop(h[n].items, Len(h[n].items) \div 2),
                         children |-> Drop(h[n].children, (Len(h[n].items) + 3) \div 2)]],
     nodes |-> <<n, a.id>>]

\* BNode.split: self keeps the lower halves, a new node takes the upper ones
split_into(h, n, a) ==
    [h |-> [a.h EXCEPT
              ![n] = [items |-> Take(h[n].items, Len(h[n].items) \div 2),
                      children |-> Take(h[n].children, (Len(h[n].items) + 2) \div 2)],
              ![a.id] = [items |-> Drop(h[n].items, Len(h[n].items) \div 2),
                         children |-> Drop(h[n].children, (Len(h[n].items) + 2) \div 2)]],
     nodes |-> <<n, a.id>>]

split(h, n) == split_into(h, n, NewNode(h))

\* self.children = left + child.split() + self.children[ind+1:], where s is
\* what child.split() returned
replace_child(n, ind, left, s) ==
    SetChildren(s.h, n, left \o s.nodes \o Drop(s.h[n].children, ind + 1))

\* BNode.insert
RECURSIVE insert(_, _, _, _)

\* BNode.insert, after the child returned r: a bubble splits the child and
\* goes into self
insert_bubble(n, ind, child, maxcount, r) ==
    IF r.err # NoErr \/ r.bubble = None THEN r
    ELSE insert_here(replace_child(n, ind, Take(r.h[n].children, ind), split(r.h, child)),
                     n, r.bubble[1], maxcount)

\* BNode.insert, an internal node: recurse into the child find_by_key names
insert_child(h, n, item, maxcount, f) ==
    IF f.err # NoErr THEN [h |-> h, bubble |-> None, err |-> f.err]
    ELSE IF ~InRange(h[n].children, f.ind)
    THEN [h |-> h, bubble |-> None, err |-> "IndexError"]
    ELSE insert_bubble(n, f.ind, At(h[n].children, f.ind), maxcount,
                       insert(h, At(h[n].children, f.ind), item, maxcount))

insert(h, n, item, maxcount) ==
    IF h[n].children = <<>>
    THEN insert_here(h, n, item, maxcount)
    ELSE insert_child(h, n, item, maxcount,
                      find_by_key(h[n].items, keyfunc(item), FALSE))

\* BNode.merge: othernode (o) is the right neighbour of self (n)
RECURSIVE merge(_, _, _, _)

\* BNode.merge, the last statement: "if len(self.items) > maxcount"
merge_overflow(h, n, maxcount) ==
    IF Len(h[n].items) > maxcount
    THEN pop_median(h, n)
    ELSE [h |-> h, bubble |-> None, err |-> NoErr]

\* self.children = l_children + l_child.split() + r_children
merge_split(n, o, l_children, s) ==
    SetChildren(s.h, n, l_children \o s.nodes \o s.h[o].children)

\* BNode.merge, after the two children at the join were merged into m
merge_joined(n, o, l_child, maxcount, m) ==
    IF m.err # NoErr THEN m
    ELSE IF m.bubble = None
    THEN merge_overflow(SetChildren(m.h, n,
                            m.h[n].children \o <<l_child>> \o m.h[o].children),
                        n, maxcount)
    ELSE insert_here(merge_split(n, o, m.h[n].children, split(m.h, l_child)),
                     n, m.bubble[1], maxcount)

\* BNode.merge, r_children.pop(0): the list popped is othernode's own
merge_right(h2, n, o, l_child, maxcount) ==
    IF h2[o].children = <<>>
    THEN [h |-> h2, bubble |-> None, err |-> "IndexError"]
    ELSE merge_joined(n, o, l_child, maxcount,
                      merge(SetChildren(h2, o, Tail(h2[o].children)),
                            l_child, Head(h2[o].children), maxcount))

\* BNode.merge, l_children.pop(-1): the list popped is self's own
merge_children(h1, n, o, maxcount) ==
    IF h1[n].children = <<>> THEN merge_overflow(h1, n, maxcount)
    ELSE merge_right(SetChildren(h1, n, Take(h1[n].children, Len(h1[n].children) - 1)),
                     n, o, h1[n].children[Len(h1[n].children)], maxcount)

\* A merge that joins the items of the right neighbour before its own
merge_reversed(h, n, o, maxcount) ==
    merge_children(SetItems(h, n, h[o].items \o h[n].items), n, o, maxcount)

merge(h, n, o, maxcount) ==
    merge_children(SetItems(h, n, h[n].items \o h[o].items), n, o, maxcount)

\* BNode.delete, "Figure out which children to merge and which item guards
\* them": the copies l_children and r_children of the two sides of ind, the
\* pair popped off them, and the index of the item between the pair
flank_of(l, r, ind) ==
    IF Len(r) = 1
    THEN IF l = <<>>
         THEN [err |-> "IndexError", l_children |-> <<>>, l_child |-> 0,
               deadchild |-> 0, r_children |-> <<>>, item_ind |-> 0]
         ELSE [err |-> NoErr, l_children |-> Take(l, Len(l) - 1),
               l_child |-> l[Len(l)], deadchild |-> r[1],
               r_children |-> <<>>, item_ind |-> ind - 1]
    ELSE IF Len(r) < 2
         THEN [err |-> "IndexError", l_children |-> <<>>, l_child |-> 0,
               deadchild |-> 0, r_children |-> <<>>, item_ind |-> 0]
         ELSE [err |-> NoErr, l_children |-> l, l_child |-> r[1],
               deadchild |-> r[2], r_children |-> Drop(r, 2),
               item_ind |-> ind]

flank(children, ind) == flank_of(Take(children, ind), Drop(children, ind), ind)

\* self.children = l_children + l_child.split() + r_children
put_children(n, k, s) ==
    SetChildren(s.h, n, k.l_children \o s.nodes \o k.r_children)

\* self.children = l_children + [l_child] + r_children
put_child(h, n, k) ==
    SetChildren(h, n, k.l_children \o <<k.l_child>> \o k.r_children)

\* return False, after a call whose bubble is dropped
no_underflow(r) == [h |-> r.h, underflow |-> FALSE, err |-> r.err]

\* The comparison off by one: a node left with exactly mincount items
\* reports underflow
underflow_at_mincount(h, n, mincount) ==
    [h |-> h, underflow |-> Len(h[n].items) <= mincount, err |-> NoErr]

\* return len(self.items) < mincount
underflow_of(h, n, mincount) ==
    [h |-> h, underflow |-> Len(h[n].items) < mincount, err |-> NoErr]

\* The leaf case deleting the last item before it looks at "here"
delete_leaf_unchecked(h, n, f, mincount) ==
    IF f.here
    THEN underflow_of(SetItems(h, n, DelAt(h[n].items, f.ind)), n, mincount)
    ELSE [h |-> SetItems(h, n, Take(h[n].items, Len(h[n].items) - 1)),
          underflow |-> FALSE, err |-> "BTreeException"]

\* BNode.delete, the leaf: "Item is here - kill it", or "Whoopsie"
delete_leaf(h, n, f, mincount) ==
    IF f.here
    THEN underflow_of(SetItems(h, n, DelAt(h[n].items, f.ind)), n, mincount)
    ELSE [h |-> h, underflow |-> FALSE, err |-> "BTreeException"]

\* BNode.delete, "It's here!", after the children beside the item were
\* merged into m
delete_here(n, k, mincount, maxcount, m) ==
    IF m.err # NoErr THEN [h |-> m.h, underflow |-> FALSE, err |-> m.err]
    ELSE IF m.bubble # None
    THEN no_underflow(insert_here(put_children(n, k, split(m.h, k.l_child)),
                                  n, m.bubble[1], maxcount))
    ELSE underflow_of(put_child(m.h, n, k), n, mincount)

\* "Replace the decision item with the new median, push.", after the
\* children were put back: self.items[item_ind] is read first
push_guard(h2, n, item_ind, bubble, maxcount) ==
    IF ~InRange(h2[n].items, item_ind)
    THEN [h |-> h2, bubble |-> None, err |-> "IndexError"]
    ELSE insert(SetItems(h2, n, SetAt(h2[n].items, item_ind, bubble)),
                n, At(h2[n].items, item_ind), maxcount)

\* BNode.delete, after the guard item was pushed down into the merged child
\* and b came back
push_down(n, k, mincount, maxcount, b) ==
    IF b.err # NoErr THEN [h |-> b.h, underflow |-> FALSE, err |-> b.err]
    ELSE IF b.bubble = None
    THEN underflow_of(put_child(b.h, n, k), n, mincount)
    ELSE no_underflow(insert_here(put_children(n, k, split(b.h, k.l_child)),
                                  n, b.bubble[1], maxcount))

\* BNode.delete, "Need to merge the underflow node with a neighbor", after
\* the merge returned m
rebalance(n, k, mincount, maxcount, m) ==
    IF m.err # NoErr THEN [h |-> m.h, underflow |-> FALSE, err |-> m.err]
    ELSE IF m.bubble # None
    THEN no_underflow(push_guard(put_children(n, k, split(m.h, k.l_child)),
                                 n, k.item_ind, m.bubble[1], maxcount))
    ELSE IF ~InRange(m.h[n].items, k.item_ind)
    THEN [h |-> m.h, underflow |-> FALSE, err |-> "IndexError"]
    ELSE push_down(n, k, mincount, maxcount,
                   insert(SetItems(m.h, n, DelAt(m.h[n].items, k.item_ind)),
                          k.l_child, At(m.h[n].items, k.item_ind), maxcount))

\* BNode.delete, after the child returned d
delete_child(n, k, mincount, maxcount, d) ==
    IF d.err # NoErr \/ ~d.underflow
    THEN [h |-> d.h, underflow |-> FALSE, err |-> d.err]
    ELSE rebalance(n, k, mincount, maxcount,
                   merge(d.h, k.l_child, k.deadchild, maxcount))

\* BNode.delete
RECURSIVE delete(_, _, _, _, _)

\* BNode.delete, an internal node
delete_inner(h, n, key, mincount, maxcount, f, k) ==
    IF k.err # NoErr THEN [h |-> h, underflow |-> FALSE, err |-> k.err]
    ELSE IF f.here
    THEN delete_here(n, k, mincount, maxcount,
                     merge(SetItems(h, n, DelAt(h[n].items, f.ind)),
                           k.l_child, k.deadchild, maxcount))
    ELSE delete_child(n, k, mincount, maxcount,
                      delete(h, At(h[n].children, f.ind), key, mincount, maxcount))

delete_found(h, n, key, mincount, maxcount, f) ==
    IF f.err # NoErr THEN [h |-> h, underflow |-> FALSE, err |-> f.err]
    ELSE IF h[n].children = <<>> THEN delete_leaf(h, n, f, mincount)
    ELSE delete_inner(h, n, key, mincount, maxcount, f, flank(h[n].children, f.ind))

delete(h, n, key, mincount, maxcount) ==
    delete_found(h, n, key, mincount, maxcount, find_by_key(h[n].items, key, TRUE))

\* BNode.__iter__: the in-order sequence of the subtree; zip stops at the
\* shorter of items and children[1:]
RECURSIVE Iter(_, _)
RECURSIVE IterRest(_, _, _)
Iter(h, n) ==
    IF h[n].children = <<>> THEN h[n].items
    ELSE Iter(h, Head(h[n].children)) \o IterRest(h, h[n].items, Tail(h[n].children))

IterRest(h, its, kids) ==
    IF its = <<>> \/ kids = <<>> THEN <<>>
    ELSE <<Head(its)>> \o Iter(h, Head(kids)) \o IterRest(h, Tail(its), Tail(kids))

\* ---------------------------------------------------------------- BTree
\* BTree._mk_new_root
new_root_children(newroot, s) ==
    [h |-> SetChildren(s.h, newroot, s.nodes), root |-> newroot]

new_root(a, r, item) ==
    new_root_children(a.id, split(add_item(a.h, a.id, item), r))

_mk_new_root(h, r, item) == new_root(NewNode(h), r, item)

\* BTree.insert
returned(m) == [h |-> m.h, root |-> m.root, err |-> NoErr]

insert_root(r, b) ==
    IF b.err # NoErr \/ b.bubble = None
    THEN [h |-> b.h, root |-> r, err |-> b.err]
    ELSE returned(_mk_new_root(b.h, r, b.bubble[1]))

BTree_insert(h, r, item, maxcount) == insert_root(r, insert(h, r, item, maxcount))

\* BTree._delete
collapse(r, d) ==
    IF d.err # NoErr THEN [h |-> d.h, root |-> r, err |-> d.err]
    ELSE IF d.h[r].items = <<>> /\ d.h[r].children # <<>>
    THEN [h |-> d.h, root |-> Head(d.h[r].children), err |-> NoErr]
    ELSE [h |-> d.h, root |-> r, err |-> NoErr]

_delete(h, r, key, mincount, maxcount) ==
    collapse(r, delete(h, r, key, mincount, maxcount))

\* BTree.delete and BTree.delete_by_key
BTree_delete(h, r, item, mincount, maxcount) ==
    _delete(h, r, keyfunc(item), mincount, maxcount)

BTree_delete_by_key(h, r, key, mincount, maxcount) ==
    _delete(h, r, key, mincount, maxcount)

\* BTree._val_size
RECURSIVE _val_size(_, _, _, _, _)
_val_size(h, n, ignoremin, mincount, maxcount) ==
    LET size == Len(h[n].items)
    IN  IF ~ignoremin /\ size < mincount THEN FALSE
        ELSE /\ size <= maxcount
             /\ Len(h[n].children) \in {0, size + 1}
             /\ \A i \in 1..Len(h[n].children) :
                   _val_size(h, h[n].children[i], FALSE, mincount, maxcount)

\* BTree._val_order: prev starts as None, which Python 2 orders before
\* every key
IsOrdered(seq) ==
    \A i \in 1..(Len(seq) - 1) : keyfunc(seq[i]) <= keyfunc(seq[i + 1])

_val_order(h, r) == IsOrdered(Iter(h, r))

\* validate() consuming the root's items as it walks them
validate_consuming(h, r, mincount, maxcount) ==
    [h |-> SetItems(h, r, <<>>),
     outcome |-> IF ~_val_size(h, r, TRUE, mincount, maxcount)
                 THEN "Size validation error!"
                 ELSE IF ~_val_order(h, r) THEN "Order validation error!"
                 ELSE "ok"]

\* BTree.validate: the heap it leaves and the exception message, if any
validate(h, r, mincount, maxcount) ==
    [h |-> h,
     outcome |-> IF ~_val_size(h, r, TRUE, mincount, maxcount)
                 THEN "Size validation error!"
                 ELSE IF ~_val_order(h, r) THEN "Order validation error!"
                 ELSE "ok"]

\* ------------------------------------------------------ object identity
\* Node objects have no identity the program can observe, and a node no
\* longer referenced is reclaimed: between operations the heap holds the
\* nodes reachable from the root, numbered in the order a traversal from
\* the root first meets them.
Range(s) == {s[i] : i \in 1..Len(s)}

RECURSIVE Preorder(_, _, _)
Preorder(h, stack, seen) ==
    IF stack = <<>> THEN seen
    ELSE IF Head(stack) \in Range(seen) THEN Preorder(h, Tail(stack), seen)
    ELSE Preorder(h, h[Head(stack)].children \o Tail(stack), Append(seen, Head(stack)))

Renumber(h, order) ==
    [i \in 1..Len(order) |->
        [items |-> h[order[i]].items,
         children |-> [j \in 1..Len(h[order[i]].children) |->
                          CHOOSE m \in 1..Len(order) :
                              order[m] = h[order[i]].children[j]]]]

Compact(h, r) == Renumber(h, Preorder(h, <<r>>, <<>>))

\* ------------------------------------------------------------ the driver
\* What the caller holds: the items it has inserted and not yet deleted (the
\* lists of testiter), and the number of inserts made while every call so
\* far was an insert that returned (-1 once one raised or a delete was
\* called).  lastop is the last call and whether the caller held its
\* argument, err the exception it raised, outcome what the last validate()
\* found.
RECURSIVE Total(_, _)
Total(bag, k) == IF k = 0 THEN 0 ELSE bag[k] + Total(bag, k - 1)
Size == Total(present, MaxKey)

Op(name, arg, held) == [op |-> name, arg |-> arg, held |-> held]

\* BTree.__init__
Construct(sizes) ==
    /\ heap = <<EmptyNode>>
    /\ root = 1
    /\ maxsize \in sizes
    /\ minsize = maxsize \div 2
    /\ present = [k \in Keys |-> 0]
    /\ ninserts = 0
    /\ lastop = Op("new", 0, FALSE)
    /\ err = NoErr
    /\ outcome = "none"

Init == Construct(MaxSizes)
InitWide == Construct(AllSizes)
InitInvalid == Construct(InvalidSizes)

\* t.insert(x)
Inserted(t, x) ==
    /\ heap' = Compact(t.h, t.root)
    /\ root' = 1
    /\ err' = t.err
    /\ present' = IF t.err = NoErr
                  THEN [present EXCEPT ![x] = @ + 1] ELSE present
    /\ ninserts' = IF t.err # NoErr THEN -1
                   ELSE IF ninserts >= 0 THEN ninserts + 1 ELSE ninserts

DoInsert(x) ==
    /\ Inserted(BTree_insert(heap, root, x, maxsize), x)
    /\ lastop' = Op("insert", x, present[x] > 0)
    /\ outcome' = "none"
    /\ UNCHANGED <<maxsize, minsize>>

Insert(x) ==
    /\ Size < MaxItems
    /\ Len(heap) <= MaxItems
    /\ DoInsert(x)

\* Both delete calls end in _delete(key), which lastop records
Deleted(t, key, x) ==
    /\ heap' = Compact(t.h, t.root)
    /\ root' = 1
    /\ err' = t.err
    /\ present' = IF t.err = NoErr /\ present[x] > 0
                  THEN [present EXCEPT ![x] = @ - 1] ELSE present
    /\ ninserts' = -1
    /\ lastop' = Op("delete", key, present[x] > 0)
    /\ outcome' = "none"
    /\ UNCHANGED <<maxsize, minsize>>

\* t.delete(x)
Delete(x) == Deleted(BTree_delete(heap, root, x, minsize, maxsize), keyfunc(x), x)

\* t.delete_by_key(k)
DeleteByKey(k) == Deleted(BTree_delete_by_key(heap, root, k, minsize, maxsize), k, k)

\* t.validate()
Validated(v) ==
    /\ heap' = Compact(v.h, root)
    /\ root' = 1
    /\ outcome' = v.outcome
    /\ err' = IF v.outcome = "ok" THEN NoErr ELSE "BTreeException"
    /\ lastop' = Op("validate", 0, FALSE)
    /\ UNCHANGED <<maxsize, minsize, present, ninserts>>

Validate == Validated(validate(heap, root, minsize, maxsize))

Next ==
    \/ \E x \in Keys : Insert(x)
    \/ \E x \in Keys : Delete(x)
    \/ \E k \in Keys : DeleteByKey(k)
    \/ Validate

Spec == Init /\ [][Next]_vars
SpecInvalid == InitInvalid /\ [][Next]_vars
SpecWide == InitWide /\ [][Next]_vars

\* testiter in test.py: insert the items, then delete each of them, in any
\* order.  An exception ends the run.  The validate() after each call is a
\* call the model may leave out, so the run goes on to the next delete.
TestInsert(x) ==
    /\ err = NoErr
    /\ ninserts >= 0
    /\ Size < MaxRoundTrip
    /\ DoInsert(x)

TestDelete(x) ==
    /\ err = NoErr
    /\ present[x] > 0
    /\ Delete(x)

TestValidate ==
    /\ err = NoErr
    /\ Validate

NextRoundTrip ==
    \/ \E x \in Keys : TestInsert(x)
    \/ \E x \in Keys : TestDelete(x)
    \/ TestValidate

SpecRoundTrip == Init /\ [][NextRoundTrip]_vars

\* ------------------------------------------------------------ properties
\* What iterating the tree yields, and how often a key occurs in a sequence
Items == Iter(heap, root)
Count(seq, k) == Cardinality({i \in 1..Len(seq) : keyfunc(seq[i]) = k})

\* Some node of the tree stores an item with this key
Stored(k) ==
    \E n \in 1..Len(heap) :
        \E i \in 1..Len(heap[n].items) : keyfunc(heap[n].items[i]) = k

\* The number of levels below and including node n, along its first children
RECURSIVE Levels(_, _)
Levels(h, n) ==
    IF h[n].children = <<>> THEN 1 ELSE 1 + Levels(h, Head(h[n].children))

IsLeafWithin(n) ==
    /\ heap[n].children = <<>>
    /\ minsize <= Len(heap[n].items)
    /\ Len(heap[n].items) <= maxsize

OccupancyInvariant ==
    \A n \in 1..Len(heap) :
        /\ Len(heap[n].items) <= maxsize
        /\ n # root => minsize <= Len(heap[n].items)
        /\ Len(heap[n].children) \in {0, Len(heap[n].items) + 1}

\* C3: a delete of a key the tree yields returns normally, and the tree then
\* yields one item of that key less and as many of every other key.
DeleteMembership ==
    [][(lastop'.op = "delete" /\ Count(Items, lastop'.arg) > 0)
         => /\ err' = NoErr
            /\ \A k \in Keys :
                 Count(Items', k) =
                     Count(Items, k) - (IF k = lastop'.arg THEN 1 ELSE 0)]_vars

\* C4: every insert returns normally, and the tree then yields one more item
\* of the inserted key and as many of every other key.
InsertMembership ==
    [][lastop'.op = "insert"
         => /\ err' = NoErr
            /\ \A k \in Keys :
                 Count(Items', k) =
                     Count(Items, k) + (IF k = lastop'.arg THEN 1 ELSE 0)]_vars

\* C5: in testiter no delete raises, and once every inserted item has been
\* deleted the root has no items and no children.
RoundTrip ==
    /\ lastop.op = "delete" => err = NoErr
    /\ (ninserts < 0 /\ Size = 0) => heap = <<EmptyNode>>

\* C6: a delete of a key that no node stores raises BTreeException.
AbsentDeleteRaisesNotFound ==
    [][(lastop'.op = "delete" /\ ~Stored(lastop'.arg))
         => err' = "BTreeException"]_vars

\* C7: a delete of a key that no node stores raises and leaves the root,
\* every node and the iteration as they were.
FailedDeleteAtomic ==
    [][(lastop'.op = "delete" /\ ~Stored(lastop'.arg))
         => /\ err' # NoErr
            /\ root' = root
            /\ heap' = heap
            /\ Items' = Items]_vars

\* A delete of a key no node stores has raised on a tree of three levels.
FailedDeleteWitness ==
    /\ lastop.op = "delete"
    /\ ~Stored(lastop.arg)
    /\ err = "BTreeException"
    /\ Levels(heap, root) >= 3

\* C8: from an empty tree the root is a leaf holding every item for the
\* first maxsize inserts, and after insert maxsize + 1 it has one item and
\* two leaves, each holding minsize to maxsize items.
RootSplitsOnFirstOverflow ==
    /\ ninserts \in 0..maxsize
         => /\ heap[root].children = <<>>
            /\ Len(heap[root].items) = ninserts
    /\ ninserts = maxsize + 1
         => /\ Len(heap[root].items) = 1
            /\ Len(heap[root].children) = 2
            /\ \A i \in 1..Len(heap[root].children) :
                 IsLeafWithin(heap[root].children[i])

\* Insert maxsize + 1 has returned, for an odd maxsize and with both keys.
RootSplitWitness ==
    /\ ninserts = maxsize + 1
    /\ maxsize % 2 = 1
    /\ lastop.op = "insert"
    /\ \A k \in Keys : Count(Items, k) >= 1

\* C9: validate() leaves the root, every node, minsize and maxsize as they
\* were, and a validate() that follows a validate() has the same outcome.
ValidateReadOnly ==
    [][lastop'.op = "validate"
         => /\ root' = root
            /\ heap' = heap
            /\ minsize' = minsize
            /\ maxsize' = maxsize
            /\ lastop.op = "validate" => outcome' = outcome]_vars

\* validate() has returned on a tree of two levels or more.
ValidateWitness ==
    /\ lastop.op = "validate"
    /\ outcome = "ok"
    /\ Levels(heap, root) >= 2

\* C10: the constructor raises when maxsize is below 3 or minsize is not
\* positive.
ConstructionFailsFast ==
    (lastop.op = "new" /\ (maxsize < 3 \/ minsize <= 0)) => err # NoErr


\* The places, a children list and a position in it, that hold node n
Refs(n) ==
    {p \in (1..Len(heap)) \X (1..Len(heap)) :
        /\ p[2] <= Len(heap[p[1]].children)
        /\ heap[p[1]].children[p[2]] = n}

\* The depths at which the leaves below node n lie
RECURSIVE Depths(_, _)
Depths(h, n) ==
    IF h[n].children = <<>> THEN {1}
    ELSE UNION {{d + 1 : d \in Depths(h, h[n].children[i])} :
                   i \in 1..Len(h[n].children)}

\* C11: after every sequence of inserts and deletes the nodes reachable
\* from the root form a tree: no children list holds the root, and every
\* other node is held by one children list at one position.
ExclusiveOwnership ==
    \A n \in 1..Len(heap) :
        Cardinality(Refs(n)) = (IF n = root THEN 0 ELSE 1)

\* What root.delete(k) leaves, before _delete looks at the root
RootDeleted(k) == delete(heap, root, k, minsize, maxsize)

Collapses(k) ==
    /\ RootDeleted(k).err = NoErr
    /\ RootDeleted(k).h[root].items = <<>>
    /\ RootDeleted(k).h[root].children # <<>>

\* C14: after a delete that returns, a root without items has no children;
\* and when root.delete leaves the root without items but with children, it
\* has one child, and the tree that child roots is the tree afterwards.
RootCollapse ==
    [][\A k \in Keys :
         (lastop'.op = "delete" /\ lastop'.arg = k /\ err' = NoErr)
           => /\ heap'[root'].items = <<>> => heap'[root'].children = <<>>
              /\ Collapses(k)
                   => /\ Len(RootDeleted(k).h[root].children) = 1
                      /\ heap' = Compact(RootDeleted(k).h,
                                         RootDeleted(k).h[root].children[1])]_vars

\* C18: after every sequence of inserts and deletes all leaves lie at one
\* depth, an insert leaves that depth as it was or adds one to it, and a
\* delete leaves it as it was or takes one off it.
UniformLeafDepth ==
    [][/\ Cardinality(Depths(heap, root)') = 1
       /\ \A a \in Depths(heap, root) : \A b \in Depths(heap, root)' :
            /\ lastop'.op = "insert" => b - a \in {0, 1}
            /\ lastop'.op = "delete" => b - a \in {0, -1}]_vars

\* The calls of BNode.delete(key) below and at node n that reach "Merge
\* caused overflow": the node, what it held when it was called, and what the
\* self.insert(item) of that branch returns
RECURSIVE guard_pushes(_, _, _, _, _)

pushes_merged(h, n, k, maxcount, m) ==
    IF m.err # NoErr \/ m.bubble = None THEN {}
    ELSE {[node |-> n,
           before |-> h[n],
           r |-> push_guard(put_children(n, k, split(m.h, k.l_child)),
                            n, k.item_ind, m.bubble[1], maxcount)]}

pushes_child(h, n, k, maxcount, d) ==
    IF d.err # NoErr \/ ~d.underflow THEN {}
    ELSE pushes_merged(h, n, k, maxcount,
                       merge(d.h, k.l_child, k.deadchild, maxcount))

pushes_inner(h, n, key, mincount, maxcount, f, k) ==
    IF k.err # NoErr \/ f.here THEN {}
    ELSE guard_pushes(h, At(h[n].children, f.ind), key, mincount, maxcount)
         \cup pushes_child(h, n, k, maxcount,
                           delete(h, At(h[n].children, f.ind), key,
                                  mincount, maxcount))

pushes_found(h, n, key, mincount, maxcount, f) ==
    IF f.err # NoErr \/ h[n].children = <<>> THEN {}
    ELSE pushes_inner(h, n, key, mincount, maxcount, f,
                      flank(h[n].children, f.ind))

guard_pushes(h, n, key, mincount, maxcount) ==
    pushes_found(h, n, key, mincount, maxcount,
                 find_by_key(h[n].items, key, TRUE))

\* C12: when a delete merges an underflowing child with its neighbour and
\* the merge overflows, re-inserting the old guard item returns no bubble,
\* and the node is left with as many items as it had and one more child
\* than items.
RebalanceKeepsNode ==
    \A key \in Keys :
        \A e \in guard_pushes(heap, root, key, minsize, maxsize) :
            /\ e.r.err = NoErr
            /\ e.r.bubble = None
            /\ Len(e.r.h[e.node].items) = Len(e.before.items)
            /\ Len(e.r.h[e.node].children) = Len(e.r.h[e.node].items) + 1

\* The calls of BNode.delete that delete(key) at node n makes, itself
\* included: the node called and what the call returns
RECURSIVE delete_calls(_, _, _, _, _)

calls_inner(h, n, key, mincount, maxcount, f, k) ==
    IF k.err # NoErr \/ f.here THEN {}
    ELSE delete_calls(h, At(h[n].children, f.ind), key, mincount, maxcount)

calls_found(h, n, key, mincount, maxcount, f) ==
    IF f.err # NoErr \/ h[n].children = <<>> THEN {}
    ELSE calls_inner(h, n, key, mincount, maxcount, f,
                     flank(h[n].children, f.ind))

delete_calls(h, n, key, mincount, maxcount) ==
    {[node |-> n, d |-> delete(h, n, key, mincount, maxcount)]}
    \cup calls_found(h, n, key, mincount, maxcount,
                     find_by_key(h[n].items, key, TRUE))

\* C13: every call of BNode.delete that returns, at any node, returns True
\* exactly when the call took an item out of the node and left it with
\* fewer than minsize items; a node that keeps its item count returns
\* False, however few items it holds.
UnderflowOnLoss ==
    \A key \in Keys :
        \A c \in delete_calls(heap, root, key, minsize, maxsize) :
            c.d.err = NoErr
              => (c.d.underflow
                    <=> /\ Len(c.d.h[c.node].items) < minsize
                        /\ Len(c.d.h[c.node].items) < Len(heap[c.node].items))

\* A delete whose call at the root returns False with the root below
\* minsize items, while its call at a child of the root returns True
UnderflowWitness ==
    \E key \in Keys :
        \E c, c0 \in delete_calls(heap, root, key, minsize, maxsize) :
            /\ c.d.err = NoErr /\ c0.d.err = NoErr
            /\ c.node # root /\ c.d.underflow
            /\ c0.node = root /\ ~c0.d.underflow
            /\ Len(c0.d.h[root].items) < minsize

\* C13 as stated: every call of BNode.delete that returns, the root's
\* included, returns True exactly when the node holds fewer than minsize
\* items afterwards.
UnderflowExact ==
    \A key \in Keys :
        \A c \in delete_calls(heap, root, key, minsize, maxsize) :
            c.d.err = NoErr
              => (c.d.underflow <=> Len(c.d.h[c.node].items) < minsize)

\* ------------------------------------------------- the calls of split()
\* One call of split(): the node as pop_median found it (full), the item
\* popped, the node as split() is called, and the two halves returned
halves(full, bubble, before, s) ==
    [full |-> full, bubble |-> bubble, before |-> before,
     left |-> s.h[s.nodes[1]], right |-> s.h[s.nodes[2]]]

split_call(full, r, n) == halves(full[n], r.bubble[1], r.h[n], split(r.h, n))

\* child.split() after a call r that returned a bubble; full is the heap
\* in which the call popped it
split_after(full, r, n) ==
    IF r.err # NoErr \/ r.bubble = None THEN {} ELSE {split_call(full, r, n)}

\* BNode.insert up to the pop_median of insert_here: the heap after
\* add_item
insert_full_bubble(n, ind, child, r) ==
    IF r.err # NoErr \/ r.bubble = None THEN r.h
    ELSE add_item(replace_child(n, ind, Take(r.h[n].children, ind),
                                split(r.h, child)),
                  n, r.bubble[1])

insert_full_child(h, n, item, maxcount, f) ==
    IF f.err # NoErr \/ ~InRange(h[n].children, f.ind) THEN h
    ELSE insert_full_bubble(n, f.ind, At(h[n].children, f.ind),
                            insert(h, At(h[n].children, f.ind), item, maxcount))

insert_full(h, n, item, maxcount) ==
    IF h[n].children = <<>> THEN add_item(h, n, item)
    ELSE insert_full_child(h, n, item, maxcount,
                           find_by_key(h[n].items, keyfunc(item), FALSE))

\* BNode.merge up to its pop_median: the heap after the items were joined
\* and the children put back, or after add_item in insert_here
merge_full_joined(n, o, l_child, m) ==
    IF m.err # NoErr THEN m.h
    ELSE IF m.bubble = None
    THEN SetChildren(m.h, n, m.h[n].children \o <<l_child>> \o m.h[o].children)
    ELSE add_item(merge_split(n, o, m.h[n].children, split(m.h, l_child)),
                  n, m.bubble[1])

merge_full_right(h2, n, o, l_child, maxcount) ==
    IF h2[o].children = <<>> THEN h2
    ELSE merge_full_joined(n, o, l_child,
                           merge(SetChildren(h2, o, Tail(h2[o].children)),
                                 l_child, Head(h2[o].children), maxcount))

merge_full_children(h1, n, o, maxcount) ==
    IF h1[n].children = <<>> THEN h1
    ELSE merge_full_right(
             SetChildren(h1, n, Take(h1[n].children, Len(h1[n].children) - 1)),
             n, o, h1[n].children[Len(h1[n].children)], maxcount)

merge_full(h, n, o, maxcount) ==
    merge_full_children(SetItems(h, n, h[n].items \o h[o].items), n, o, maxcount)

\* The calls of split() that BNode.insert makes in the subtree of n
RECURSIVE insert_splits(_, _, _, _)

insert_splits_child(h, n, item, maxcount, f) ==
    IF f.err # NoErr \/ ~InRange(h[n].children, f.ind) THEN {}
    ELSE insert_splits(h, At(h[n].children, f.ind), item, maxcount)
         \cup split_after(insert_full(h, At(h[n].children, f.ind), item, maxcount),
                          insert(h, At(h[n].children, f.ind), item, maxcount),
                          At(h[n].children, f.ind))

insert_splits(h, n, item, maxcount) ==
    IF h[n].children = <<>> THEN {}
    ELSE insert_splits_child(h, n, item, maxcount,
                             find_by_key(h[n].items, keyfunc(item), FALSE))

\* The calls of split() that BTree.insert makes, the one of _mk_new_root
\* included
BTree_insert_splits(h, r, item, maxcount) ==
    insert_splits(h, r, item, maxcount)
    \cup split_after(insert_full(h, r, item, maxcount),
                     insert(h, r, item, maxcount), r)

\* The calls of split() that self.merge(othernode) makes in the subtree
RECURSIVE merge_splits(_, _, _, _)

merge_splits_right(h2, n, o, l_child, maxcount) ==
    IF h2[o].children = <<>> THEN {}
    ELSE merge_splits(SetChildren(h2, o, Tail(h2[o].children)),
                      l_child, Head(h2[o].children), maxcount)
         \cup split_after(merge_full(SetChildren(h2, o, Tail(h2[o].children)),
                                     l_child, Head(h2[o].children), maxcount),
                          merge(SetChildren(h2, o, Tail(h2[o].children)),
                                l_child, Head(h2[o].children), maxcount),
                          l_child)

merge_splits_children(h1, n, o, maxcount) ==
    IF h1[n].children = <<>> THEN {}
    ELSE merge_splits_right(
             SetChildren(h1, n, Take(h1[n].children, Len(h1[n].children) - 1)),
             n, o, h1[n].children[Len(h1[n].children)], maxcount)

merge_splits(h, n, o, maxcount) ==
    merge_splits_children(SetItems(h, n, h[n].items \o h[o].items), n, o, maxcount)

\* The calls of split() that BNode.delete makes in the subtree of n
RECURSIVE delete_splits(_, _, _, _, _)

\* ... by the push of the guard item, self.insert(item), after the merge
\* overflowed and the halves were put back (h2)
push_guard_splits(h2, n, item_ind, bubble, maxcount) ==
    IF ~InRange(h2[n].items, item_ind) THEN {}
    ELSE insert_splits(SetItems(h2, n, SetAt(h2[n].items, item_ind, bubble)),
                       n, At(h2[n].items, item_ind), maxcount)

\* ... by the push of the guard item into the merged child (h4: the guard
\* popped)
push_down_splits(h4, l_child, item, maxcount) ==
    insert_splits(h4, l_child, item, maxcount)
    \cup split_after(insert_full(h4, l_child, item, maxcount),
                     insert(h4, l_child, item, maxcount), l_child)

\* ... after the merge of the underflowing child returned m
rebalance_splits(n, k, maxcount, full, m) ==
    IF m.err # NoErr THEN {}
    ELSE IF m.bubble # None
    THEN {split_call(full, m, k.l_child)}
         \cup push_guard_splits(put_children(n, k, split(m.h, k.l_child)),
                                n, k.item_ind, m.bubble[1], maxcount)
    ELSE IF ~InRange(m.h[n].items, k.item_ind) THEN {}
    ELSE push_down_splits(SetItems(m.h, n, DelAt(m.h[n].items, k.item_ind)),
                          k.l_child, At(m.h[n].items, k.item_ind), maxcount)

\* ... after the child returned d
delete_splits_child(n, k, maxcount, d) ==
    IF d.err # NoErr \/ ~d.underflow THEN {}
    ELSE merge_splits(d.h, k.l_child, k.deadchild, maxcount)
         \cup rebalance_splits(n, k, maxcount,
                               merge_full(d.h, k.l_child, k.deadchild, maxcount),
                               merge(d.h, k.l_child, k.deadchild, maxcount))

\* ... "It's here!": h1 has the item deleted
delete_splits_here(h1, k, maxcount) ==
    merge_splits(h1, k.l_child, k.deadchild, maxcount)
    \cup split_after(merge_full(h1, k.l_child, k.deadchild, maxcount),
                     merge(h1, k.l_child, k.deadchild, maxcount), k.l_child)

delete_splits_inner(h, n, key, mincount, maxcount, f, k) ==
    IF k.err # NoErr THEN {}
    ELSE IF f.here
    THEN delete_splits_here(SetItems(h, n, DelAt(h[n].items, f.ind)), k, maxcount)
    ELSE delete_splits(h, At(h[n].children, f.ind), key, mincount, maxcount)
         \cup delete_splits_child(n, k, maxcount,
                  delete(h, At(h[n].children, f.ind), key, mincount, maxcount))

delete_splits_found(h, n, key, mincount, maxcount, f) ==
    IF f.err # NoErr \/ h[n].children = <<>> THEN {}
    ELSE delete_splits_inner(h, n, key, mincount, maxcount, f,
                             flank(h[n].children, f.ind))

delete_splits(h, n, key, mincount, maxcount) ==
    delete_splits_found(h, n, key, mincount, maxcount,
                        find_by_key(h[n].items, key, TRUE))

\* Every call of split() that one insert or one delete on the tree makes
Splits ==
    UNION {BTree_insert_splits(heap, root, x, maxsize) : x \in Keys}
    \cup UNION {delete_splits(heap, root, key, minsize, maxsize) : key \in Keys}

\* The calls that split an internal node of n items and n + 2 children
InnerSplits ==
    {e \in Splits : /\ e.before.children # <<>>
                    /\ Len(e.before.children) = Len(e.before.items) + 2}

\* The two halves hold the children of the node, in order, and each has one
\* child more than it has items
HalvesJoin(e) ==
    /\ e.left.children \o e.right.children = e.before.children
    /\ Len(e.left.children) = Len(e.left.items) + 1
    /\ Len(e.right.children) = Len(e.right.items) + 1

\* C15: when an internal node of n items and n + 2 children is split, the
\* left half keeps the first floor((n + 2) / 2) children and the right half
\* the rest, and each half ends with one child more than it has items, for
\* odd and for even n.
SplitChildren ==
    \A e \in InnerSplits :
        /\ Len(e.left.children) = (Len(e.before.items) + 2) \div 2
        /\ HalvesJoin(e)

\* An internal node with an odd number of items is split, and one with an
\* even number
SplitChildrenWitness ==
    /\ \E e \in InnerSplits : Len(e.before.items) % 2 = 1
    /\ \E e \in InnerSplits : Len(e.before.items) % 2 = 0

\* C15 as stated: the left half keeps the first ceiling((n + 2) / 2)
\* children.
SplitChildrenCeiling ==
    \A e \in InnerSplits :
        /\ Len(e.left.children) = (Len(e.before.items) + 3) \div 2
        /\ HalvesJoin(e)

\* The index the claim names: the middle one of an odd number of items,
\* the lower of the two middle ones of an even number
Median(size) == IF size % 2 = 1 THEN size \div 2 ELSE (size - 1) \div 2

\* validate() passes on the tree
IsValid == validate(heap, root, minsize, maxsize).outcome = "ok"

\* C16: pop_median on a node with n items removes the item at index
\* floor(n/2) for odd n and floor((n-1)/2) for even n; the split() that
\* follows puts the items before the popped one in the left half and those
\* after it in the right half; and in an insert or delete on a valid tree
\* both halves hold at least minsize and at most maxsize items.
MedianAgreesWithSplit ==
    \A e \in Splits :
        /\ e.bubble = At(e.full.items, Median(Len(e.full.items)))
        /\ e.before.items = DelAt(e.full.items, Median(Len(e.full.items)))
        /\ e.left.items = Take(e.full.items, Median(Len(e.full.items)))
        /\ e.right.items = Drop(e.full.items, Median(Len(e.full.items)) + 1)
        /\ IsValid => /\ Len(e.left.items) \in minsize..maxsize
                      /\ Len(e.right.items) \in minsize..maxsize

\* On a valid tree a node with an even number of items, the two middle ones
\* different, is popped and split, and so is one with an odd number
MedianWitness ==
    /\ IsValid
    /\ \E e \in Splits :
          /\ Len(e.full.items) % 2 = 0
          /\ At(e.full.items, Len(e.full.items) \div 2) # e.bubble
    /\ \E e \in Splits : Len(e.full.items) % 2 = 1

\* ---------------------------------------------------- the calls of merge()
\* The calls self.merge(othernode) makes, itself included: the heap at the
\* call, self (n) and othernode (o)
RECURSIVE merge_calls(_, _, _, _)

merge_calls_right(h2, n, o, l_child, maxcount) ==
    IF h2[o].children = <<>> THEN {}
    ELSE merge_calls(SetChildren(h2, o, Tail(h2[o].children)),
                     l_child, Head(h2[o].children), maxcount)

merge_calls_children(h1, n, o, maxcount) ==
    IF h1[n].children = <<>> THEN {}
    ELSE merge_calls_right(
             SetChildren(h1, n, Take(h1[n].children, Len(h1[n].children) - 1)),
             n, o, h1[n].children[Len(h1[n].children)], maxcount)

merge_calls(h, n, o, maxcount) ==
    {[h |-> h, n |-> n, o |-> o]}
    \cup merge_calls_children(SetItems(h, n, h[n].items \o h[o].items),
                              n, o, maxcount)

\* The calls of merge() that BNode.delete makes in the subtree of n
RECURSIVE delete_merges(_, _, _, _, _)

delete_merges_child(k, maxcount, d) ==
    IF d.err # NoErr \/ ~d.underflow THEN {}
    ELSE merge_calls(d.h, k.l_child, k.deadchild, maxcount)

delete_merges_inner(h, n, key, mincount, maxcount, f, k) ==
    IF k.err # NoErr THEN {}
    ELSE IF f.here
    THEN merge_calls(SetItems(h, n, DelAt(h[n].items, f.ind)),
                     k.l_child, k.deadchild, maxcount)
    ELSE delete_merges(h, At(h[n].children, f.ind), key, mincount, maxcount)
         \cup delete_merges_child(k, maxcount,
                  delete(h, At(h[n].children, f.ind), key, mincount, maxcount))

delete_merges_found(h, n, key, mincount, maxcount, f) ==
    IF f.err # NoErr \/ h[n].children = <<>> THEN {}
    ELSE delete_merges_inner(h, n, key, mincount, maxcount, f,
                             flank(h[n].children, f.ind))

delete_merges(h, n, key, mincount, maxcount) ==
    delete_merges_found(h, n, key, mincount, maxcount,
                        find_by_key(h[n].items, key, TRUE))

\* Every call of merge() that one delete on the tree makes
Merges == UNION {delete_merges(heap, root, key, minsize, maxsize) : key \in Keys}

\* L and R are subtrees of equal height, each valid but for a top node that
\* may be under-full, and no item of L is above one of R
Siblings(h, l, r) ==
    /\ _val_size(h, l, TRUE, minsize, maxsize)
    /\ _val_size(h, r, TRUE, minsize, maxsize)
    /\ Cardinality(Depths(h, l)) = 1
    /\ Depths(h, l) = Depths(h, r)
    /\ IsOrdered(Iter(h, l) \o Iter(h, r))

\* The in-order sequence of L after the merge returned m: the bubble, if
\* any, between the two halves of L.split()
joined(m, s, l) ==
    IF m.bubble = None THEN Iter(m.h, l)
    ELSE Iter(s.h, s.nodes[1]) \o m.bubble \o Iter(s.h, s.nodes[2])

Merged(m, l) == joined(m, split(m.h, l), l)

\* C17: for adjacent sibling subtrees L and R of equal height, each valid
\* except that one may be under-full, L.merge(R) returns, the in-order
\* sequence of L afterwards (with the bubble put back between the halves of
\* L.split()) is that of L followed by that of R, and a bubble is returned
\* exactly when L holds more than maxsize items after the items were
\* joined and the bubble of the merge below was taken in.
MergePreserves ==
    \A e \in Merges :
        Siblings(e.h, e.n, e.o)
          => /\ merge(e.h, e.n, e.o, maxsize).err = NoErr
             /\ Merged(merge(e.h, e.n, e.o, maxsize), e.n)
                  = Iter(e.h, e.n) \o Iter(e.h, e.o)
             /\ merge(e.h, e.n, e.o, maxsize).bubble # None
                  <=> Len(merge_full(e.h, e.n, e.o, maxsize)[e.n].items) > maxsize

\* Two internal siblings with different items are merged: in one merge the
\* merge of the children below overflows and the merge itself does not,
\* in another the merge itself overflows
MergeWitness ==
    /\ \E e \in Merges :
          /\ Siblings(e.h, e.n, e.o)
          /\ e.h[e.n].children # <<>>
          /\ Iter(e.h, e.n) # <<>> /\ Iter(e.h, e.o) # <<>>
          /\ Head(Iter(e.h, e.n)) # Iter(e.h, e.o)[Len(Iter(e.h, e.o))]
          /\ merge(e.h, e.n, e.o, maxsize).bubble = None
          /\ Len(merge_full(e.h, e.n, e.o, maxsize)[e.n].items)
               > Len(e.h[e.n].items) + Len(e.h[e.o].items)
    /\ \E e \in Merges :
          /\ Siblings(e.h, e.n, e.o)
          /\ merge(e.h, e.n, e.o, maxsize).bubble # None

====
